---- MODULE Spec2Model ----
(***************************************************************************)
(* Model of adapt_embed/models/linear/run_linear_launcher.py:              *)
(* the hyperparameter grid built under __main__, run_experiment(variant)   *)
(* and its nested train_and_evaluate, as a sequential state machine.       *)
(***************************************************************************)
EXTENDS Integers, Sequences, FiniteSets, TLC

(* ------------------------------ bounds --------------------------------- *)

\* direct calls of run_experiment made by an importing caller
MaxRuns == 2
\* largest num_epochs an importing caller passes
MaxEpochs == 1
\* how many losses more than num_epochs a fit call may return
ExtraLosses == 1
\* executions of the script on the same results directory
MaxExecutions == 2
\* snapshot directories an importing caller's logger may be set up with
NumDirs == 2

(* --------------------------- the grid of main -------------------------- *)

\* A configuration dict is an insertion-ordered sequence of <<key, values>>.
variants_list ==
  << << <<"model_name", <<"all-MiniLM-L6-v2">> >>,
        <<"task", <<"CQADupstackEnglishRetrieval">> >>,
        <<"split", <<"test">> >>,
        <<"num_epochs", <<15>> >>,
        <<"lr", <<"1e-2", "3e-3", "1e-3", "3e-4">> >>,
        <<"batch_size", <<256>> >>,
        <<"triplet_margin", <<"1/3", "1", "3">> >>,
        <<"loss_type", <<"triplet">> >>,
        <<"data_augmentation_threshold", <<5>> >> >>,
     << <<"model_name", <<"all-MiniLM-L6-v2">> >>,
        <<"task", <<"CQADupstackEnglishRetrieval">> >>,
        <<"split", <<"test">> >>,
        <<"num_epochs", <<15>> >>,
        <<"lr", <<"1e-2", "3e-3", "1e-3", "3e-4">> >>,
        <<"batch_size", <<256>> >>,
        <<"loss_type", <<"mse", "bce">> >>,
        <<"data_augmentation_threshold", <<5>> >> >> >>

\* dict(tuple_list): the mapping a list of (key, value) pairs denotes
ToDict(pairs) ==
  [k \in {pairs[i][1] : i \in 1..Len(pairs)} |->
     pairs[CHOOSE i \in 1..Len(pairs) : pairs[i][1] = k][2]]

\* every pair list of `tuples` with (key, vals[i]) put in front, for i = from..Len(vals)
RECURSIVE Prepend(_, _, _, _)
Prepend(key, vals, from, tuples) ==
  IF from > Len(vals) THEN <<>>
  ELSE [j \in 1..Len(tuples) |-> << <<key, vals[from]>> >> \o tuples[j]]
       \o Prepend(key, vals, from + 1, tuples)

\* itertools.product over the named value lists: the last key varies fastest
RECURSIVE Product(_)
Product(cfg) ==
  IF Len(cfg) = 0 THEN << <<>> >>
  ELSE Prepend(cfg[1][1], cfg[1][2], 1, Product(Tail(cfg)))

\* DeterministicHyperparameterSweeper(cfg).iterate_hyperparameters()
iterate_hyperparameters(cfg) ==
  LET tuples == Product(cfg) IN [i \in 1..Len(tuples) |-> ToDict(tuples[i])]

RECURSIVE Flatten(_)
Flatten(lists) ==
  IF Len(lists) = 0 THEN <<>> ELSE lists[1] \o Flatten(Tail(lists))

Reverse(s) == [i \in 1..Len(s) |-> s[Len(s) + 1 - i]]

\* a slip in the comprehension: the configuration dicts taken last first
BuildVariantsReversed(vl) ==
  Flatten([i \in 1..Len(vl) |-> iterate_hyperparameters(Reverse(vl)[i])])

\* [variant for variants in variants_list for variant in Sweeper(variants)...]
BuildVariants(vl) ==
  Flatten([i \in 1..Len(vl) |-> iterate_hyperparameters(vl[i])])

(* ------------------------------ state ---------------------------------- *)

VARIABLES
  is_main,        \* __name__ == "__main__": run as a script, or imported
  nested_dirs,    \* whether LocalLogger gives each adapter type a directory of its own
  main_pc,        \* position of the script: build, loop, running, done, raised, imported
  variants,       \* the list built at line 142
  exp_id,         \* enumerate index of the loop at line 144
  runs,           \* direct calls of run_experiment made so far
  executions,     \* executions of the script begun so far
  fs,             \* the weights files on disk: path -> [writers, param]
  pc,             \* position inside run_experiment
  variant,        \* its argument
  base_dir,       \* the snapshot directory the launcher set up for this run
  error,          \* the exception that ended the run, if any
  model_loaded,   \* the SentenceTransformer of line 39 exists
  dataset,        \* the nonlocal of lines 43-59
  stage,          \* which of the four with-blocks is running (1..4)
  snapshot_dir,   \* logger.get_snapshot_dir()
  wfiles,         \* the four *_weights_file locals, by adapter type
  param,          \* first-layer parameters of the four adapters (0: not constructed)
  copied,         \* lines 97-99 have run
  results,        \* the results dict of line 82
  baseline,       \* baseline_results exists
  plots,          \* calls of plot_comparison in this run
  tae_calls,      \* adapter types whose train_and_evaluate was entered, in order
  tae_returned,   \* adapter types whose train_and_evaluate returned, in order
  tae_pc,         \* position inside train_and_evaluate
  adapted_model,  \* its adapted_model parameter: which of the four adapters
  weights_file,   \* its weights_file parameter
  tae_force,      \* its force parameter
  existed,        \* os.path.exists(weights_file) as read at line 67
  losses,         \* its losses local
  loaded,         \* files passed to torch.load in this call
  fit_calls,      \* fit calls of this call: [path, start]
  tae_results,    \* its results local
  rows,           \* tabular rows dumped in this call
  log_i,          \* loop index of line 76 (1-based)
  made_dirs,      \* directories passed to os.makedirs in this run
  run_writes      \* weights files written in this run

main_vars == <<is_main, nested_dirs, main_pc, variants, exp_id, runs, executions>>
run_vars  == <<pc, variant, base_dir, error, model_loaded, dataset, stage, snapshot_dir,
               wfiles, param, copied, results, baseline, plots, tae_calls, tae_returned,
               made_dirs, run_writes>>
tae_vars  == <<tae_pc, adapted_model, weights_file, tae_force, existed, losses, loaded, fit_calls,
               tae_results, rows, log_i>>
vars == <<main_vars, fs, run_vars, tae_vars>>

(* ------------------------- run_experiment helpers ---------------------- *)

AdapterTypes == {"query_adapted", "adapted", "query_first", "separate"}

\* a slip in the order of the with-blocks: joint before query-only
AdapterOrderSwapped == <<"adapted", "query_adapted", "query_first", "separate">>

\* the order of the four with-blocks, lines 84, 89, 94, 102
AdapterOrder == <<"query_adapted", "adapted", "query_first", "separate">>

\* a slip: the separate adapter given the joint adapter's file name
WeightsFileNameClash(t) ==
  CASE t = "query_adapted" -> "weights_query_adapted.pt"
    [] t = "adapted"       -> "weights.pt"
    [] t = "query_first"   -> "weights_query_first.pt"
    [] t = "separate"      -> "weights.pt"

\* the file names of lines 85, 90, 95, 103
WeightsFileName(t) ==
  CASE t = "query_adapted" -> "weights_query_adapted.pt"
    [] t = "adapted"       -> "weights.pt"
    [] t = "query_first"   -> "weights_query_first.pt"
    [] t = "separate"      -> "weights_separate.pt"

\* os.path.join(dir, name)
Join(dir, name) == <<dir, name>>
\* os.path.dirname(path)
Dirname(path) == path[1]

\* variant.get(key, default)
Get(v, key, default) == IF key \in DOMAIN v THEN v[key] ELSE default

\* a slip: the triplet_margin check of lines 34-35 left out
ValidationErrorNoMargin(loss_type, triplet_margin) ==
  IF loss_type \notin {"triplet", "mse", "bce"}
  THEN "ValueError: Invalid loss type"
  ELSE "none"

\* lines 34-37
ValidationError(loss_type, triplet_margin) ==
  IF triplet_margin = "None" /\ loss_type = "triplet"
  THEN "ValueError: Must provide triplet_margin"
  ELSE IF loss_type \notin {"triplet", "mse", "bce"}
       THEN "ValueError: Invalid loss type"
       ELSE "none"

\* a slip: the `not` of line 67 dropped
ShouldLoadNoNot(exists, force) == exists /\ force

\* the condition of line 67
ShouldLoad(exists, force) == exists /\ ~force

\* a slip: the parameters of the query-only adapter not copied
WarmStartKeepsOwn(own, from) == own

\* lines 98-99: copy_ overwrites the first layer with the query-only adapter's
WarmStartParam(own, from) == from

\* a slip: enumerate(losses) instead of enumerate(losses[:-1])
RestLossesAll(ls) == ls

\* losses[:-1] of line 76
RestLosses(ls) == SubSeq(ls, 1, Len(ls) - 1)

\* the initial first-layer parameters of a freshly constructed LinearAdapter
InitParam(t) ==
  CASE t = "query_adapted" -> 1
    [] t = "adapted"       -> 2
    [] t = "query_first"   -> 3
    [] t = "separate"      -> 4

\* LinearAdapter.fit: the parameters it ends with, a token of where it started
FitParam(start) == start + 10
\* LinearAdapter.fit: the list of losses it returns, one token per epoch
FitLosses(n) == [i \in 1..n |-> 1000 - i]
\* LinearAdapter.fit: how many losses it may return for num_epochs epochs
FitLens(num_epochs) == 1..(num_epochs + ExtraLosses)

\* get_mteb_results: the metrics of a model, a token of its parameters
Metrics(p) == p

\* LocalLogger(key, value, variant): the snapshot directory inside the context
LocalLoggerDir(base, value) == IF nested_dirs THEN base \o <<value>> ELSE base

CurrentType == AdapterOrder[stage]
NumEpochs == variant["num_epochs"]

\* the dataset class get_dataset builds, lines 47-58
DatasetClass(loss_type) ==
  IF loss_type = "triplet" THEN "TripletDataset" ELSE "PairwiseScoreDataset"

\* the variant an importing caller passes
MakeVariant(loss_type, margin_opt, force_opt, num_epochs) ==
  ToDict(<< <<"model_name", "all-MiniLM-L6-v2">>,
            <<"task", "CQADupstackEnglishRetrieval">>,
            <<"split", "test">>,
            <<"num_epochs", num_epochs>>,
            <<"lr", "1e-2">>,
            <<"batch_size", 256>>,
            <<"loss_type", loss_type>> >>
         \o (IF margin_opt = "absent" THEN <<>>
             ELSE << <<"triplet_margin", margin_opt>> >>)
         \o (IF force_opt = "absent" THEN <<>>
             ELSE << <<"force", force_opt = "True">> >>))

LossTypeInputs == {"triplet", "mse", "bce", "hinge"}
MarginInputs == {"absent", "None", "1"}
ForceInputs == {"absent", "True", "False"}

(* ------------------------------- Init ---------------------------------- *)

NoRun ==
  /\ error = "none"
  /\ model_loaded = FALSE
  /\ dataset = "None"
  /\ stage = 0
  /\ wfiles = [t \in AdapterTypes |-> <<>>]
  /\ param = [t \in AdapterTypes |-> 0]
  /\ copied = FALSE
  /\ results = [t \in AdapterTypes |-> {}]
  /\ baseline = FALSE
  /\ plots = 0
  /\ tae_calls = <<>>
  /\ tae_returned = <<>>
  /\ made_dirs = {}
  /\ run_writes = {}

NoCall ==
  /\ tae_pc = "none"
  /\ adapted_model = "none"
  /\ weights_file = <<>>
  /\ tae_force = FALSE
  /\ existed = FALSE
  /\ losses = <<>>
  /\ loaded = <<>>
  /\ fit_calls = <<>>
  /\ tae_results = 0
  /\ rows = <<>>
  /\ log_i = 0

Init ==
  /\ is_main \in BOOLEAN
  /\ nested_dirs \in BOOLEAN
  /\ main_pc = IF is_main THEN "build" ELSE "imported"
  /\ variants = <<>>
  /\ exp_id = 0
  /\ runs = 0
  /\ executions = IF is_main THEN 1 ELSE 0
  /\ fs = <<>>
  /\ pc = "idle"
  /\ variant = <<>>
  /\ base_dir = <<>>
  /\ snapshot_dir = <<>>
  /\ NoRun
  /\ NoCall

(* ----------------------------- the script ------------------------------ *)

\* a call of train_and_evaluate has not begun: its locals do not exist
ResetCall ==
  /\ tae_pc' = "none"
  /\ adapted_model' = "none"
  /\ weights_file' = <<>>
  /\ tae_force' = FALSE
  /\ existed' = FALSE
  /\ losses' = <<>>
  /\ loaded' = <<>>
  /\ fit_calls' = <<>>
  /\ tae_results' = 0
  /\ rows' = <<>>
  /\ log_i' = 0

\* run_experiment(v) is entered with the logger set up on directory b
StartRun(v, b) ==
  /\ variant' = v
  /\ base_dir' = b
  /\ snapshot_dir' = b
  /\ pc' = "validate"
  /\ error' = "none"
  /\ model_loaded' = FALSE
  /\ dataset' = "None"
  /\ stage' = 0
  /\ wfiles' = [t \in AdapterTypes |-> <<>>]
  /\ param' = [t \in AdapterTypes |-> 0]
  /\ copied' = FALSE
  /\ results' = [t \in AdapterTypes |-> {}]
  /\ baseline' = FALSE
  /\ plots' = 0
  /\ tae_calls' = <<>>
  /\ tae_returned' = <<>>
  /\ made_dirs' = {}
  /\ run_writes' = {}
  /\ ResetCall

\* lines 116-142: the grid
MainBuild ==
  /\ main_pc = "build"
  /\ variants' = BuildVariants(variants_list)
  /\ exp_id' = 0
  /\ main_pc' = "loop"
  /\ UNCHANGED <<is_main, nested_dirs, runs, executions, fs, run_vars, tae_vars>>

\* lines 144-152: launcher_util.run_experiment calls run_experiment(variant)
\* in this process, on a log directory of the experiment's own
MainLaunch ==
  /\ main_pc = "loop"
  /\ exp_id < Len(variants)
  /\ StartRun(variants[exp_id + 1], <<"exp", exp_id>>)
  /\ main_pc' = "running"
  /\ UNCHANGED <<is_main, nested_dirs, variants, exp_id, runs, executions, fs>>

\* line 144: the experiment returned, the loop takes the next variant or ends
MainNext ==
  /\ main_pc = "running"
  /\ pc = "returned"
  /\ exp_id' = exp_id + 1
  /\ main_pc' = IF exp_id + 1 < Len(variants) THEN "loop" ELSE "done"
  /\ UNCHANGED <<is_main, nested_dirs, variants, runs, executions, fs, run_vars, tae_vars>>

\* lines 144-152: nothing catches an exception of the experiment
MainRaise ==
  /\ main_pc = "running"
  /\ pc = "raised"
  /\ main_pc' = "raised"
  /\ UNCHANGED <<is_main, nested_dirs, variants, exp_id, runs, executions, fs, run_vars,
                 tae_vars>>

\* the script is executed again: a new process, the files of the earlier ones on disk
MainAgain ==
  /\ main_pc \in {"done", "raised"}
  /\ executions < MaxExecutions
  /\ executions' = executions + 1
  /\ main_pc' = "build"
  /\ variants' = <<>>
  /\ exp_id' = 0
  /\ pc' = "idle"
  /\ variant' = <<>>
  /\ base_dir' = <<>>
  /\ snapshot_dir' = <<>>
  /\ error' = "none"
  /\ model_loaded' = FALSE
  /\ dataset' = "None"
  /\ stage' = 0
  /\ wfiles' = [t \in AdapterTypes |-> <<>>]
  /\ param' = [t \in AdapterTypes |-> 0]
  /\ copied' = FALSE
  /\ results' = [t \in AdapterTypes |-> {}]
  /\ baseline' = FALSE
  /\ plots' = 0
  /\ tae_calls' = <<>>
  /\ tae_returned' = <<>>
  /\ made_dirs' = {}
  /\ run_writes' = {}
  /\ ResetCall
  /\ UNCHANGED <<is_main, nested_dirs, runs, fs>>

\* an importing caller calls run_experiment(variant) directly
Call(loss_type, margin_opt, force_opt, num_epochs, d) ==
  /\ main_pc = "imported"
  /\ pc \in {"idle", "returned", "raised"}
  /\ runs < MaxRuns
  /\ runs' = runs + 1
  /\ StartRun(MakeVariant(loss_type, margin_opt, force_opt, num_epochs), <<"dir", d>>)
  /\ UNCHANGED <<is_main, nested_dirs, main_pc, variants, exp_id, executions, fs>>

(* --------------------------- run_experiment ---------------------------- *)

\* lines 21-37: read the variant, reject an invalid one
Validate ==
  /\ pc = "validate"
  /\ LET e == ValidationError(variant["loss_type"], Get(variant, "triplet_margin", "None"))
     IN /\ error' = e
        /\ pc' = IF e = "none" THEN "load_model" ELSE "raised"
  /\ UNCHANGED <<main_vars, fs, variant, base_dir, model_loaded, dataset, stage,
                 snapshot_dir, wfiles, param, copied, results, baseline, plots,
                 tae_calls, tae_returned, made_dirs, run_writes, tae_vars>>

\* lines 39-43 and 82: the frozen embedding model, dataset = None, results = {}
LoadModel ==
  /\ pc = "load_model"
  /\ model_loaded' = TRUE
  /\ dataset' = "None"
  /\ results' = [t \in AdapterTypes |-> {}]
  /\ stage' = 1
  /\ pc' = "enter"
  /\ UNCHANGED <<main_vars, fs, variant, base_dir, error, snapshot_dir, wfiles, param,
                 copied, baseline, plots, tae_calls, tae_returned, made_dirs,
                 run_writes, tae_vars>>

\* lines 84-86, 89-91, 94-96, 102-104: enter the LocalLogger context, resolve
\* the weights file in its snapshot directory, construct the adapter
EnterContext ==
  /\ pc = "enter"
  /\ LET t == CurrentType
         d == LocalLoggerDir(base_dir, t)
     IN /\ snapshot_dir' = d
        /\ wfiles' = [wfiles EXCEPT ![t] = Join(d, WeightsFileName(t))]
        /\ param' = [param EXCEPT ![t] = InitParam(t)]
        /\ pc' = IF t = "query_first" THEN "warm_start" ELSE "call"
  /\ UNCHANGED <<main_vars, fs, variant, base_dir, error, model_loaded, dataset, stage,
                 copied, results, baseline, plots, tae_calls, tae_returned, made_dirs,
                 run_writes, tae_vars>>

\* lines 97-99: the query-first adapter starts from the query-only adapter
WarmStart ==
  /\ pc = "warm_start"
  /\ param' = [param EXCEPT !["query_first"] =
                 WarmStartParam(param["query_first"], param["query_adapted"])]
  /\ copied' = TRUE
  /\ pc' = "call"
  /\ UNCHANGED <<main_vars, fs, variant, base_dir, error, model_loaded, dataset, stage,
                 snapshot_dir, wfiles, results, baseline, plots, tae_calls,
                 tae_returned, made_dirs, run_writes, tae_vars>>

\* lines 87, 92, 100, 105 and 64: train_and_evaluate is called with the adapter,
\* its weights file and its label; force is not passed and takes its default
CallTrainAndEvaluate ==
  /\ pc = "call"
  /\ tae_calls' = Append(tae_calls, CurrentType)
  /\ adapted_model' = CurrentType
  /\ weights_file' = wfiles[CurrentType]
  /\ tae_force' = FALSE
  /\ tae_pc' = "start"
  /\ existed' = FALSE
  /\ losses' = <<>>
  /\ loaded' = <<>>
  /\ fit_calls' = <<>>
  /\ tae_results' = 0
  /\ rows' = <<>>
  /\ log_i' = 0
  /\ pc' = "in_call"
  /\ UNCHANGED <<main_vars, fs, variant, base_dir, error, model_loaded, dataset, stage,
                 snapshot_dir, wfiles, param, copied, results, baseline, plots,
                 tae_returned, made_dirs, run_writes>>

\* lines 65-71: makedirs, then load the checkpoint or fit and save it
TrainOrLoad ==
  /\ tae_pc = "start"
  /\ made_dirs' = made_dirs \cup {Dirname(weights_file)}
  /\ existed' = (weights_file \in DOMAIN fs)
  /\ IF ShouldLoad(weights_file \in DOMAIN fs, tae_force)
     THEN /\ weights_file \in DOMAIN fs
          /\ param' = [param EXCEPT ![adapted_model] = fs[weights_file].param]
          /\ loaded' = <<weights_file>>
          /\ UNCHANGED <<fs, dataset, losses, fit_calls, run_writes>>
     ELSE \E n \in FitLens(NumEpochs) :
          LET start == param[adapted_model]
              old == IF weights_file \in DOMAIN fs THEN fs[weights_file].writers ELSE {}
          IN /\ dataset' = IF dataset = "None" THEN DatasetClass(variant["loss_type"])
                           ELSE dataset
             /\ fit_calls' = <<[path |-> weights_file, start |-> start]>>
             /\ param' = [param EXCEPT ![adapted_model] = FitParam(start)]
             /\ fs' = [p \in DOMAIN fs \cup {weights_file} |->
                         IF p = weights_file
                         THEN [writers |-> old \cup {adapted_model}, param |-> FitParam(start)]
                         ELSE fs[p]]
             /\ run_writes' = run_writes \cup {weights_file}
             /\ losses' = FitLosses(n)
             /\ UNCHANGED loaded
  /\ tae_pc' = "evaluate"
  /\ UNCHANGED <<main_vars, pc, variant, base_dir, error, model_loaded, stage,
                 snapshot_dir, wfiles, copied, results, baseline, plots, tae_calls,
                 tae_returned, adapted_model, weights_file, tae_force, tae_results, rows,
                 log_i>>

\* line 72 (get_results, lines 61-62): evaluate the adapted model on the task
Evaluate ==
  /\ tae_pc = "evaluate"
  /\ tae_results' = Metrics(param[adapted_model])
  /\ tae_pc' = "log_last"
  /\ UNCHANGED <<main_vars, fs, run_vars, adapted_model, weights_file, tae_force, existed, losses,
                 loaded, fit_calls, rows, log_i>>

\* lines 74-75: the row of the last epoch with the metrics; losses[-1] raises
\* IndexError on an empty list, which leaves the with-block and run_experiment
LogLast ==
  /\ tae_pc = "log_last"
  /\ IF Len(losses) = 0
     THEN /\ tae_pc' = "raised"
          /\ pc' = "raised"
          /\ error' = "IndexError"
          /\ snapshot_dir' = base_dir
          /\ UNCHANGED <<rows, log_i>>
     ELSE /\ rows' = Append(rows, [epoch |-> NumEpochs - 1,
                                   loss |-> losses[Len(losses)],
                                   metrics |-> {tae_results}])
          /\ log_i' = 1
          /\ tae_pc' = "log_rest"
          /\ UNCHANGED <<pc, error, snapshot_dir>>
  /\ UNCHANGED <<main_vars, fs, variant, base_dir, model_loaded, dataset, stage, wfiles,
                 param, copied, results, baseline, plots, tae_calls, tae_returned,
                 made_dirs, run_writes, adapted_model, weights_file, tae_force, existed,
                 losses, loaded, fit_calls, tae_results>>

\* lines 76-78: one iteration of the loop over the other losses
LogRest ==
  /\ tae_pc = "log_rest"
  /\ log_i <= Len(RestLosses(losses))
  /\ rows' = Append(rows, [epoch |-> log_i - 1,
                           loss |-> RestLosses(losses)[log_i],
                           metrics |-> {}])
  /\ log_i' = log_i + 1
  /\ UNCHANGED <<main_vars, fs, run_vars, tae_pc, adapted_model, weights_file, tae_force,
                 existed, losses, loaded, fit_calls, tae_results>>

\* line 79, the assignment to results[...] at the call site, and the end of
\* the with-block: on to the next adapter type or to the baseline
Return ==
  /\ tae_pc = "log_rest"
  /\ log_i > Len(RestLosses(losses))
  /\ tae_pc' = "returned"
  /\ results' = [results EXCEPT ![CurrentType] = {tae_results}]
  /\ tae_returned' = Append(tae_returned, CurrentType)
  /\ snapshot_dir' = base_dir
  /\ IF stage < Len(AdapterOrder)
     THEN stage' = stage + 1 /\ pc' = "enter"
     ELSE stage' = stage /\ pc' = "baseline"
  /\ UNCHANGED <<main_vars, fs, variant, base_dir, error, model_loaded, dataset, wfiles,
                 param, copied, baseline, plots, tae_calls, made_dirs, run_writes,
                 adapted_model, weights_file, tae_force, existed, losses, loaded,
                 fit_calls, tae_results, rows, log_i>>

\* line 107: the baseline results of the unadapted model
Baseline ==
  /\ pc = "baseline"
  /\ baseline' = TRUE
  /\ pc' = "plot"
  /\ UNCHANGED <<main_vars, fs, variant, base_dir, error, model_loaded, dataset, stage,
                 snapshot_dir, wfiles, param, copied, results, plots, tae_calls,
                 tae_returned, made_dirs, run_writes, tae_vars>>

\* lines 108-113: plot the baseline and the four results; run_experiment returns
PlotComparison ==
  /\ pc = "plot"
  /\ baseline
  /\ \A t \in AdapterTypes : results[t] # {}
  /\ plots' = plots + 1
  /\ pc' = "returned"
  /\ UNCHANGED <<main_vars, fs, variant, base_dir, error, model_loaded, dataset, stage,
                 snapshot_dir, wfiles, param, copied, results, baseline, tae_calls,
                 tae_returned, made_dirs, run_writes, tae_vars>>

Next ==
  \/ MainBuild
  \/ MainLaunch
  \/ MainNext
  \/ MainRaise
  \/ MainAgain
  \/ \E lt \in LossTypeInputs, mo \in MarginInputs, fo \in ForceInputs,
        ne \in 1..MaxEpochs, d \in 1..NumDirs : Call(lt, mo, fo, ne, d)
  \/ Validate
  \/ LoadModel
  \/ EnterContext
  \/ WarmStart
  \/ CallTrainAndEvaluate
  \/ TrainOrLoad
  \/ Evaluate
  \/ LogLast
  \/ LogRest
  \/ Return
  \/ Baseline
  \/ PlotComparison

Spec == Init /\ [][Next]_vars

(* ------------------------------ properties ----------------------------- *)

Range(f) == {f[i] : i \in DOMAIN f}
IsPrefix(a, b) == Len(a) <= Len(b) /\ SubSeq(b, 1, Len(a)) = a
\* train_and_evaluate has passed its load-or-train step (lines 67-71)
Decided == tae_pc \in {"evaluate", "log_last", "log_rest", "returned", "raised"}
\* the force entry of the variant, as line 32 reads it
VariantForce == Get(variant, "force", FALSE)

\* C1: resumable training. Once train_and_evaluate has passed line 71, for
\* whichever adapter type it was called: if the weights file existed and force
\* was false, fit was not called and the adapter holds the parameters loaded
\* from exactly that file; otherwise fit was called exactly once, with that
\* file as model_save_path, and nothing was loaded.
C1_ResumableTraining ==
  Decided =>
    /\ (existed /\ ~tae_force) =>
         /\ fit_calls = <<>>
         /\ loaded = <<weights_file>>
         /\ weights_file \notin run_writes
         /\ param[adapted_model] = fs[weights_file].param
    /\ (~existed \/ tae_force) =>
         /\ Len(fit_calls) = 1
         /\ fit_calls[1].path = weights_file
         /\ loaded = <<>>
         /\ weights_file \in DOMAIN fs

\* C1 witness: a call that found its checkpoint and loaded it
C1_Witness ==
  /\ tae_pc = "evaluate"
  /\ existed
  /\ ~tae_force
  /\ loaded = <<weights_file>>

\* C2: load-or-train, evaluate, log. No call of train_and_evaluate, whether it
\* loaded the weights or trained them, raises: each one evaluates, logs the
\* row of epoch num_epochs-1 with a loss and the metrics, and returns.
C2_EveryCallReturns ==
  /\ tae_pc # "raised"
  /\ tae_pc = "returned" =>
       /\ Len(rows) >= 1
       /\ rows[1].epoch = NumEpochs - 1
       /\ rows[1].metrics = {tae_results}

\* C3: four-way control flow. The calls of train_and_evaluate of a run are a
\* prefix of query_adapted, adapted, query_first, separate; a run that
\* returned made all four, each once and each returned, and plotted exactly
\* once; a plot exists only with all four results and the baseline; a run
\* that raised plotted nothing.
C3_FourWayControlFlow ==
  LET order == <<"query_adapted", "adapted", "query_first", "separate">>
  IN /\ IsPrefix(tae_calls, order)
     /\ IsPrefix(tae_returned, tae_calls)
     /\ Len(tae_calls) <= Len(tae_returned) + 1
     /\ plots <= 1
     /\ pc = "returned" => (tae_calls = order /\ tae_returned = order /\ plots = 1)
     /\ plots = 1 => (baseline /\ \A t \in AdapterTypes : results[t] # {})
     /\ pc = "raised" => plots = 0

\* C3 witness: a run that completed and plotted
C3_Witness == pc = "returned" /\ plots = 1 /\ Len(tae_returned) = 4

\* C4: query-first warm start. The copy happens only after the query-only
\* adapter's train_and_evaluate has returned and before the query-first
\* adapter's begins; at that call the query-first adapter holds the
\* parameters the query-only adapter ended with (the ones its results were
\* computed from), and a fit of the query-first adapter starts from them.
C4_QueryFirstWarmStart ==
  /\ copied => "query_adapted" \in Range(tae_returned)
  /\ "query_first" \in Range(tae_calls) => copied
  /\ (pc = "call" /\ CurrentType = "query_first") =>
       param["query_first"] = param["query_adapted"]
  /\ (adapted_model = "query_first" /\ fit_calls # <<>>) =>
       /\ fit_calls[1].start = param["query_adapted"]
       /\ results["query_adapted"] = {Metrics(fit_calls[1].start)}
       /\ ~existed

\* C4 witness: the query-first adapter was fitted, its checkpoint being absent
C4_Witness ==
  /\ adapted_model = "query_first"
  /\ tae_pc = "evaluate"
  /\ ~existed
  /\ fit_calls # <<>>

\* C5: grid expansion. The list built in main has 20 variants: the first 12
\* are the triplet variants, one for each of the 4*3 pairs of lr and
\* triplet_margin, the last 8 the pairwise ones, one for each of the 4*2 pairs
\* of lr and loss_type, with no triplet_margin; no variant occurs twice.
C5_GridExpansion ==
  LET lrs == {"1e-2", "3e-3", "1e-3", "3e-4"}
      margins == {"1/3", "1", "3"}
      pairwise == {"mse", "bce"}
  IN main_pc \in {"loop", "running", "done", "raised"} =>
       /\ Len(variants) = 20
       /\ \A i \in 1..12 : /\ variants[i]["loss_type"] = "triplet"
                           /\ "triplet_margin" \in DOMAIN variants[i]
       /\ \A i \in 13..20 : /\ variants[i]["loss_type"] \in pairwise
                            /\ "triplet_margin" \notin DOMAIN variants[i]
       /\ \A l \in lrs, m \in margins :
            Cardinality({i \in 1..12 : /\ variants[i]["lr"] = l
                                       /\ variants[i]["triplet_margin"] = m}) = 1
       /\ \A l \in lrs, t \in pairwise :
            Cardinality({i \in 13..20 : /\ variants[i]["lr"] = l
                                        /\ variants[i]["loss_type"] = t}) = 1
       /\ \A i, j \in 1..20 : i # j => variants[i] # variants[j]
       /\ \A i \in 1..20 : variants[i]["num_epochs"] = 15

\* C5 witness: the loop of main is running the last of the 20 variants
C5_Witness ==
  /\ main_pc = "running"
  /\ exp_id = 19
  /\ variant = variants[20]
  /\ variant["loss_type"] = "bce"

\* C6: checkpoint isolation. Within a run the weights files of the adapter
\* types are pairwise distinct, each has its type's file name and lies in the
\* snapshot directory current in its context; over any sequence of runs no
\* file on disk was written by two adapter types, and a call only loads a
\* file written by its own adapter type.
C6_CheckpointIsolation ==
  /\ \A t, u \in AdapterTypes :
       (t # u /\ wfiles[t] # <<>> /\ wfiles[u] # <<>>) => wfiles[t] # wfiles[u]
  /\ wfiles["query_adapted"] # <<>> => wfiles["query_adapted"][2] = "weights_query_adapted.pt"
  /\ wfiles["adapted"] # <<>> => wfiles["adapted"][2] = "weights.pt"
  /\ wfiles["query_first"] # <<>> => wfiles["query_first"][2] = "weights_query_first.pt"
  /\ wfiles["separate"] # <<>> => wfiles["separate"][2] = "weights_separate.pt"
  /\ pc \in {"warm_start", "call", "in_call"} =>
       /\ wfiles[CurrentType] = <<snapshot_dir, wfiles[CurrentType][2]>>
       /\ snapshot_dir = LocalLoggerDir(base_dir, CurrentType)
  /\ pc = "in_call" => (adapted_model = CurrentType /\ weights_file = wfiles[adapted_model])
  /\ \A p \in DOMAIN fs : Cardinality(fs[p].writers) = 1
  /\ (Decided /\ loaded # <<>>) => fs[loaded[1]].writers = {adapted_model}
  /\ (Decided /\ fit_calls # <<>>) => fs[fit_calls[1].path].writers = {adapted_model}

\* C6 witness: a call loads its own checkpoint from a directory that also
\* holds the checkpoint of another adapter type
C6_Witness ==
  /\ Decided
  /\ loaded # <<>>
  /\ \E p \in DOMAIN fs : /\ p[1] = weights_file[1]
                          /\ p # weights_file
                          /\ fs[p].writers # {adapted_model}

\* the variants the claim calls invalid
InvalidVariant ==
  \/ (variant["loss_type"] = "triplet" /\ Get(variant, "triplet_margin", "None") = "None")
  \/ variant["loss_type"] \notin {"triplet", "mse", "bce"}

\* C7: variant validation. A run of an invalid variant (triplet loss without a
\* triplet_margin, or an unknown loss_type) ends with ValueError at the
\* validation, a valid one raises no ValueError; when the ValueError is
\* raised no embedding model was loaded, no dataset built, no directory made,
\* no weights file written, no adapter constructed and no row logged.
C7_VariantValidation ==
  LET value_errors == {"ValueError: Must provide triplet_margin",
                       "ValueError: Invalid loss type"}
  IN /\ (pc \notin {"idle", "validate"} /\ InvalidVariant) =>
          (pc = "raised" /\ error \in value_errors)
     /\ (pc \notin {"idle", "validate"} /\ ~InvalidVariant) => error \notin value_errors
     /\ error \in value_errors =>
          /\ ~model_loaded
          /\ dataset = "None"
          /\ made_dirs = {}
          /\ run_writes = {}
          /\ tae_calls = <<>>
          /\ rows = <<>>
          /\ \A t \in AdapterTypes : param[t] = 0 /\ wfiles[t] = <<>>
          /\ plots = 0

\* C7 witness: a triplet variant without a margin was rejected
C7_Witness ==
  /\ pc = "raised"
  /\ error = "ValueError: Must provide triplet_margin"
  /\ variant["loss_type"] = "triplet"
  /\ "triplet_margin" \notin DOMAIN variant

\* the rows train_and_evaluate is to write for its losses
ExpectedRows ==
  LET n == Len(losses)
  IN [i \in 1..n |->
        IF i = 1
        THEN [epoch |-> NumEpochs - 1, loss |-> losses[n], metrics |-> {tae_results}]
        ELSE [epoch |-> i - 2, loss |-> losses[i - 1], metrics |-> {}]]

\* C8: log row ordering after training. With n >= 1 losses returned by fit,
\* the rows are written in the order: the row of epoch num_epochs-1 with the
\* last loss and the metrics, then the rows of epochs 0..n-2 with their own
\* losses and no metrics; a call that returned wrote exactly these n rows,
\* and with n = num_epochs every epoch 0..num_epochs-1 has exactly one row.
C8_LogRowOrder ==
  (tae_pc \in {"log_rest", "returned"} /\ fit_calls # <<>> /\ Len(losses) >= 1) =>
    /\ IsPrefix(rows, ExpectedRows)
    /\ Len(rows) >= 1
    /\ tae_pc = "returned" =>
         /\ rows = ExpectedRows
         /\ Len(rows) = Len(losses)
         /\ Len(losses) = NumEpochs =>
              \A e \in 0..(NumEpochs - 1) :
                Cardinality({i \in 1..Len(rows) : rows[i].epoch = e}) = 1

\* C8 witness: a call that trained for num_epochs >= 2 epochs has returned
C8_Witness ==
  /\ tae_pc = "returned"
  /\ fit_calls # <<>>
  /\ Len(losses) = NumEpochs
  /\ Len(losses) >= 2
  /\ Len(rows) = Len(losses)

\* C9: force flag. When the variant sets force to true, an adapter whose
\* weights file exists is retrained with fit; when force is false or absent,
\* an existing weights file suppresses training.
C9_ForceRetrains ==
  Decided =>
    /\ (VariantForce /\ existed) => (fit_calls # <<>> /\ loaded = <<>>)
    /\ (~VariantForce /\ existed) => (fit_calls = <<>> /\ loaded # <<>>)
====
